---- MODULE Spec2Model ----
(***************************************************************************)
(* Model of cloudflareAAAA.py: one reconciliation pass per invocation      *)
(* (resolve the public IPv6 address, list the zone, create / update /      *)
(* delete the AAAA records of HOSTNAME), run against a provider zone that  *)
(* is shared by all invocations.  Every HTTP call is one atomic step; its  *)
(* response is chosen by the environment.                                  *)
(***************************************************************************)
EXTENDS Integers, Sequences, FiniteSets, TLC

\* ---- bounds ----
NumRuns == 2            \* invocations of the script that can run at the same time
MaxStarts == 3          \* invocations of the script in one behaviour
MaxInitRecords == 3     \* records in the zone before the first invocation
MaxInitOverlap == 2     \* the same, when invocations may overlap

Runs == 1..NumRuns

\* ---- configuration (cloudflareAAAA.py:6) and the values of the model ----
HOSTNAME == "host"
OtherName == "other"
Addresses == {"a1", "a2"}
ErrBody == "err"        \* body text of a resolver response that is not an address

\* kinds of response an HTTP call can get
\*   ok       2xx, body is the JSON the code expects
\*   rejected non-2xx, body is well-formed JSON with "result": null
\*   badbody  body is not JSON, or is JSON without a "result" key
\*   neterr   requests raises (connection refused, reset, ...)
Outcomes == {"ok", "rejected", "badbody", "neterr"}

\* zone         the provider's records, in the order the provider lists them
\* nextId       the identifier the provider gives to the next new record
\* addr         the machine's public IPv6 address
\* pc           where each invocation is ("idle": not started yet)
\* public_ipv6, stored_posts   the locals of __main
\* idx          position of the loop of line 67 in stored_posts[1:]
\* calls        the HTTP calls the invocation has issued, in order
\* lastOut      the kind of response the latest call got
\* clean        has every call of the invocation been answered ok?
\* started      number of invocations so far
\* exitStatus   exit status of the invocation (-1 while it has not ended)
\* overlapped   did another invocation run while this one did?
\* previous     how the invocation before this one compares with it:
\*                "clean"  it resolved the same address and ended normally
\*                         with every call answered ok
\*                "same"   it resolved the same address, but a call failed
\*                "none"   otherwise, also once invocations ran side by side
VARIABLES zone, nextId, addr, pc, public_ipv6, stored_posts, idx, calls,
          exitStatus, overlapped, previous, lastOut, clean, started

vars == <<zone, nextId, addr, pc, public_ipv6, stored_posts, idx, calls,
          exitStatus, overlapped, previous, lastOut, clean, started>>

\* ---- pure helpers ----

\* the filter of line 54
MatchesNameOnly(post) == post.name = HOSTNAME

Matches(post) == post.name = HOSTNAME /\ post.type = "AAAA"

Filter(allposts) == SelectSeq(allposts, Matches)

HasId(z, id) == \E k \in 1..Len(z) : z[k].id = id

\* provider side of POST / PATCH / DELETE
ApplyCreate(z, id, type, name, content) ==
  Append(z, [id |-> id, type |-> type, name |-> name, content |-> content])

ApplyUpdate(z, id, type, name, content) ==
  [k \in 1..Len(z) |->
     IF z[k].id = id
       THEN [id |-> id, type |-> type, name |-> name, content |-> content]
       ELSE z[k]]

ApplyDelete(z, id) ==
  LET Keep(r) == r.id # id IN SelectSeq(z, Keep)

\* does the call raise an exception in the script?
\*   resolve: requests.get(...).text          only a transport error raises
\*   list:    data.json()['result'], then iterated by the comprehension
\*   create:  the response is returned unparsed
\*   update / delete: result.json()['result'], the value is discarded
RaisesAny(op, out) == out # "ok"

Raises(op, out) ==
  CASE op = "resolve" -> out = "neterr"
    [] op = "list"    -> out # "ok"
    [] op = "create"  -> out = "neterr"
    [] op = "update"  -> out \in {"neterr", "badbody"}
    [] op = "delete"  -> out \in {"neterr", "badbody"}

\* may the provider have carried out a write whose response was `out`?
MayApply(out) ==
  CASE out = "ok" -> {TRUE}
    [] out = "rejected" -> {FALSE}
    [] OTHER -> {TRUE, FALSE}

\* exit status of the interpreter: __main() returning ends the script
\* normally, an uncaught exception ends it with status 1
ExitStatusZero(raised) == IF raised THEN 0 ELSE 0

ExitStatus(raised) == IF raised THEN 1 ELSE 0

Call(op, id, type, name, content) ==
  [op |-> op, id |-> id, type |-> type, name |-> name, content |-> content]

Active(p) == pc[p] \in {"list", "create", "update", "delete"}

Ended(p) == pc[p] \in {"done", "faulted"}

\* where the script goes after line 54, given the filtered list
AfterListNoCreate(posts, ip) ==
  IF Len(posts) = 0 THEN "done"
  ELSE IF posts[1].content # ip THEN "update"
  ELSE IF Len(posts) > 1 THEN "delete"
  ELSE "done"

AfterListInverted(posts, ip) ==
  IF Len(posts) = 0 THEN "create"
  ELSE IF posts[1].content = ip THEN "update"
  ELSE IF Len(posts) > 1 THEN "delete"
  ELSE "done"

AfterListAlwaysUpdate(posts, ip) ==
  IF Len(posts) = 0 THEN "create" ELSE "update"

AfterList(posts, ip) ==
  IF Len(posts) = 0 THEN "create"
  ELSE IF posts[1].content # ip THEN "update"
  ELSE IF Len(posts) > 1 THEN "delete"
  ELSE "done"

AfterUpdateStop(posts) == "done"

\* where the script goes after line 63
AfterUpdate(posts) == IF Len(posts) > 1 THEN "delete" ELSE "done"

\* the posts the loop of line 67 goes through: stored_posts[1:]
SparesAll(posts) == posts

SparesFromThird(posts) == SubSeq(posts, 3, Len(posts))

SparesReversed(posts) ==
  [k \in 1..(Len(posts) - 1) |-> posts[Len(posts) + 1 - k]]

Spares(posts) == SubSeq(posts, 2, Len(posts))

\* ---- initial states ----
MatchingKinds ==
  { [type |-> "AAAA", name |-> HOSTNAME, content |-> c] : c \in Addresses }

RecordKinds ==
  MatchingKinds
  \cup { [type |-> "A", name |-> HOSTNAME, content |-> "a1"],
         [type |-> "AAAA", name |-> OtherName, content |-> "a1"] }

ZonesOf(kinds, max) ==
  UNION { { [k \in 1..n |-> [id |-> k, type |-> f[k].type, name |-> f[k].name,
                              content |-> f[k].content]] :
            f \in [1..n -> kinds] } : n \in 0..max }

InitZones == ZonesOf(RecordKinds, MaxInitRecords)

InitLocals ==
  /\ nextId = Len(zone) + 1
  /\ addr \in Addresses
  /\ pc = [p \in Runs |-> "idle"]
  /\ public_ipv6 = [p \in Runs |-> ""]
  /\ stored_posts = [p \in Runs |-> <<>>]
  /\ idx = [p \in Runs |-> 0]
  /\ calls = [p \in Runs |-> <<>>]
  /\ exitStatus = [p \in Runs |-> -1]
  /\ overlapped = [p \in Runs |-> FALSE]
  /\ previous = [p \in Runs |-> "none"]
  /\ lastOut = [p \in Runs |-> "ok"]
  /\ clean = [p \in Runs |-> TRUE]
  /\ started = 0

\* any records in the zone
Init == zone \in InitZones /\ InitLocals

\* only records of HOSTNAME in the zone
InitOverlap == zone \in ZonesOf(MatchingKinds, MaxInitOverlap) /\ InitLocals

\* ---- actions ----

\* the response `out` arrives for the call the invocation just issued
Answer(p, out) ==
  /\ lastOut' = [lastOut EXCEPT ![p] = out]
  /\ clean' = [clean EXCEPT ![p] = @ /\ out = "ok"]

\* the invocation ends: by an uncaught exception, or by the return of line 74
End(p, raised) ==
  /\ pc' = [pc EXCEPT ![p] = IF raised THEN "faulted" ELSE "done"]
  /\ exitStatus' = [exitStatus EXCEPT ![p] = ExitStatus(raised)]

Goto(p, label) ==
  IF label = "done"
    THEN End(p, FALSE)
    ELSE /\ pc' = [pc EXCEPT ![p] = label]
         /\ UNCHANGED exitStatus

\* lines 76-77 and 51: the script is invoked and resolves the address
ResolveStep(p) ==
  /\ ~Active(p)
  /\ started < MaxStarts
  /\ started' = started + 1
  /\ \A q \in 1..(p - 1) : Active(q)
  /\ \E out \in Outcomes :
       LET text == IF out = "ok" THEN addr
                   ELSE IF Raises("resolve", out) THEN "" ELSE ErrBody IN
       /\ calls' = [calls EXCEPT ![p] = <<Call("resolve", 0, "", "", "")>>]
       /\ lastOut' = [lastOut EXCEPT ![p] = out]
       /\ clean' = [clean EXCEPT ![p] = out = "ok"]
       /\ stored_posts' = [stored_posts EXCEPT ![p] = <<>>]
       /\ idx' = [idx EXCEPT ![p] = 0]
       /\ public_ipv6' = [public_ipv6 EXCEPT ![p] = text]
       /\ previous' = [previous EXCEPT ![p] =
                         IF \E q \in Runs \ {p} : pc[q] # "idle" THEN "none"
                         ELSE IF ~Ended(p) \/ public_ipv6[p] # text THEN "none"
                         ELSE IF pc[p] = "done" /\ clean[p] THEN "clean"
                         ELSE "same"]
       /\ IF Raises("resolve", out)
            THEN /\ pc' = [pc EXCEPT ![p] = "faulted"]
                 /\ exitStatus' = [exitStatus EXCEPT ![p] = ExitStatus(TRUE)]
                 /\ overlapped' = [overlapped EXCEPT ![p] = FALSE]
            ELSE /\ pc' = [pc EXCEPT ![p] = "list"]
                 /\ exitStatus' = [exitStatus EXCEPT ![p] = -1]
                 /\ overlapped' = [q \in Runs |->
                      IF q = p THEN \E r \in Runs : Active(r)
                      ELSE IF Active(q) THEN TRUE ELSE overlapped[q]]
  /\ UNCHANGED <<zone, nextId, addr>>

\* an invocation that starts when no other one is running
Resolve(p) ==
  /\ \A q \in Runs : ~Active(q)
  /\ ResolveStep(p)

\* an invocation that starts whatever the others do
ResolveOverlap(p) == ResolveStep(p)

\* lines 53-54, and the tests of lines 55, 59, 61, 65
List(p) ==
  /\ pc[p] = "list"
  /\ \E out \in Outcomes :
       /\ calls' = [calls EXCEPT ![p] = Append(@, Call("list", 0, "", "", ""))]
       /\ Answer(p, out)
       /\ IF Raises("list", out)
            THEN /\ End(p, TRUE)
                 /\ UNCHANGED <<stored_posts, idx>>
            ELSE /\ stored_posts' = [stored_posts EXCEPT ![p] = Filter(zone)]
                 /\ idx' = [idx EXCEPT ![p] = 1]
                 /\ Goto(p, AfterList(Filter(zone), public_ipv6[p]))
  /\ UNCHANGED <<zone, nextId, addr, public_ipv6, overlapped, previous, started>>

\* lines 55-57, then 59 and 65 are false and line 74 returns
Create(p) ==
  /\ pc[p] = "create"
  /\ \E out \in Outcomes : \E applied \in MayApply(out) :
       /\ calls' = [calls EXCEPT ![p] =
                      Append(@, Call("create", 0, "AAAA", HOSTNAME, public_ipv6[p]))]
       /\ Answer(p, out)
       /\ IF applied
            THEN /\ zone' = ApplyCreate(zone, nextId, "AAAA", HOSTNAME, public_ipv6[p])
                 /\ nextId' = nextId + 1
            ELSE UNCHANGED <<zone, nextId>>
       /\ End(p, Raises("create", out))
  /\ UNCHANGED <<addr, public_ipv6, stored_posts, idx, overlapped, previous, started>>

\* lines 59-63
Update(p) ==
  /\ pc[p] = "update"
  /\ \E out \in Outcomes : \E applied \in MayApply(out) :
       LET id == stored_posts[p][1].id IN
       /\ applied => HasId(zone, id)
       /\ calls' = [calls EXCEPT ![p] =
                      Append(@, Call("update", id, "AAAA", HOSTNAME, public_ipv6[p]))]
       /\ Answer(p, out)
       /\ zone' = IF applied
                    THEN ApplyUpdate(zone, id, "AAAA", HOSTNAME, public_ipv6[p])
                    ELSE zone
       /\ IF Raises("update", out)
            THEN End(p, TRUE)
            ELSE Goto(p, AfterUpdate(stored_posts[p]))
  /\ UNCHANGED <<nextId, addr, public_ipv6, stored_posts, idx, overlapped, previous, started>>

\* one iteration of the loop of lines 67-72
Delete(p) ==
  /\ pc[p] = "delete"
  /\ \E out \in Outcomes : \E applied \in MayApply(out) :
       LET id == Spares(stored_posts[p])[idx[p]].id IN
       /\ idx[p] <= Len(Spares(stored_posts[p]))
       /\ applied => HasId(zone, id)
       /\ calls' = [calls EXCEPT ![p] = Append(@, Call("delete", id, "", "", ""))]
       /\ Answer(p, out)
       /\ zone' = IF applied THEN ApplyDelete(zone, id) ELSE zone
       /\ IF Raises("delete", out)
            THEN /\ End(p, TRUE)
                 /\ UNCHANGED idx
            ELSE /\ idx' = [idx EXCEPT ![p] = @ + 1]
                 /\ Goto(p, IF idx[p] < Len(Spares(stored_posts[p])) THEN "delete" ELSE "done")
  /\ UNCHANGED <<nextId, addr, public_ipv6, stored_posts, overlapped, previous, started>>

\* the machine's public address changes
ChangeAddress ==
  /\ \E a \in Addresses \ {addr} : addr' = a
  /\ UNCHANGED <<zone, nextId, pc, public_ipv6, stored_posts, idx, calls,
                 exitStatus, overlapped, previous, lastOut, clean, started>>

\* invocations one after the other (the scheduler's normal case)
Next ==
  \/ \E p \in Runs : Resolve(p)
  \/ \E p \in Runs : List(p)
  \/ \E p \in Runs : Create(p)
  \/ \E p \in Runs : Update(p)
  \/ \E p \in Runs : Delete(p)
  \/ ChangeAddress

Spec == Init /\ [][Next]_vars

\* invocations that may overlap
NextOverlap ==
  \/ \E p \in Runs : ResolveOverlap(p)
  \/ \E p \in Runs : List(p)
  \/ \E p \in Runs : Create(p)
  \/ \E p \in Runs : Update(p)
  \/ \E p \in Runs : Delete(p)
  \/ ChangeAddress

SpecOverlap == InitOverlap /\ [][NextOverlap]_vars

\* ---- vocabulary of the properties ----

\* a record of (configured hostname, "AAAA")
Ours(r) == r.name = HOSTNAME /\ r.type = "AAAA"

NotOurs(r) == ~Ours(r)

MatchingNow == SelectSeq(zone, Ours)

IsWriteCall(c) == c.op \in {"create", "update", "delete"}

IsDeleteCall(c) == c.op = "delete"

WriteCalls(p) == SelectSeq(calls[p], IsWriteCall)

DeleteCalls(p) == SelectSeq(calls[p], IsDeleteCall)

Primary(p) == stored_posts[p][1]

Synced(p) == [Primary(p) EXCEPT !.content = public_ipv6[p]]

ExpectedUpdate(p) ==
  IF Primary(p).content # public_ipv6[p]
    THEN <<Call("update", Primary(p).id, "AAAA", HOSTNAME, public_ipv6[p])>>
    ELSE <<>>

ExpectedDeletes(p) ==
  [k \in 1..(Len(stored_posts[p]) - 1) |->
     Call("delete", stored_posts[p][k + 1].id, "", "", "")]

IsPrefix(s, t) == Len(s) <= Len(t) /\ s = SubSeq(t, 1, Len(s))

LastCall(p) == calls[p][Len(calls[p])]

\* a run that ended normally with every call answered ok
FaultFree(p) == pc[p] = "done" /\ clean[p]

\* ---- properties ----

\* C1: a fault-free run that found no record of (HOSTNAME, "AAAA") issued
\* exactly one write, create("AAAA", HOSTNAME, resolved address), and leaves
\* exactly one matching record, whose content is the resolved address.
C1_CreateWhenNone ==
  \A p \in Runs :
    FaultFree(p) /\ Len(stored_posts[p]) = 0 =>
      /\ WriteCalls(p) = <<Call("create", 0, "AAAA", HOSTNAME, public_ipv6[p])>>
      /\ Len(MatchingNow) = 1
      /\ MatchingNow[1].content = public_ipv6[p]

C1_Witness ==
  \E p \in Runs :
    /\ FaultFree(p) /\ Len(stored_posts[p]) = 0
    /\ Len(WriteCalls(p)) = 1
    /\ Len(MatchingNow) = 1

\* C2: a fault-free run that found exactly one matching record leaves that
\* record (same identifier) as the only matching one, with the resolved
\* address as content; it issued an update for it iff its content differed,
\* and no create or delete.
C2_SyncSingle ==
  \A p \in Runs :
    FaultFree(p) /\ Len(stored_posts[p]) = 1 =>
      /\ MatchingNow = <<Synced(p)>>
      /\ WriteCalls(p) = ExpectedUpdate(p)

C2_Witness ==
  \E p \in Runs :
    /\ FaultFree(p) /\ Len(stored_posts[p]) = 1
    /\ Primary(p).content # public_ipv6[p]
    /\ Len(WriteCalls(p)) = 1
    /\ MatchingNow = <<Synced(p)>>

\* C3: a fault-free run that found N > 1 matching records leaves exactly one,
\* the one that was first in the provider's order, with the resolved address
\* as content, and issued exactly N-1 deletes, one for each of the others.
C3_KeepFirst ==
  \A p \in Runs :
    FaultFree(p) /\ Len(stored_posts[p]) > 1 =>
      /\ MatchingNow = <<Synced(p)>>
      /\ Len(DeleteCalls(p)) = Len(stored_posts[p]) - 1
      /\ \A k \in 2..Len(stored_posts[p]) :
           \E j \in 1..Len(DeleteCalls(p)) :
             DeleteCalls(p)[j].id = stored_posts[p][k].id

C3_Witness ==
  \E p \in Runs :
    /\ FaultFree(p) /\ Len(stored_posts[p]) > 2
    /\ Len(DeleteCalls(p)) = Len(stored_posts[p]) - 1
    /\ MatchingNow = <<Synced(p)>>

C5_Recovers ==
  [][\A p \in Runs :
       Active(p) /\ pc'[p] = "done" /\ ~overlapped[p] /\ clean'[p] =>
         /\ Len(SelectSeq(zone', Ours)) <= 1
         /\ \A k \in 1..Len(SelectSeq(zone', Ours)) :
              SelectSeq(zone', Ours)[k].content = public_ipv6[p]]_vars

\* two overlapping runs both created a record; the next run, alone and
\* fault-free, found the duplicate and left one synced record
C5_Witness ==
  \E p \in Runs : \E q \in Runs \ {p} :
    /\ FaultFree(p) /\ ~overlapped[p]
    /\ Len(stored_posts[p]) > 1
    /\ Ended(q) /\ overlapped[q]
    /\ \E j \in 1..Len(calls[q]) : calls[q][j].op = "create"
    /\ MatchingNow = <<Synced(p)>>

\* C6 as stated: every run ends with exit status 0, faulting or not.
C6_AsStated ==
  \A p \in Runs : Ended(p) => exitStatus[p] = 0

\* C6: a run that reaches the end of the pass ends with exit status 0,
\* whichever branch it took and whatever the responses were; a run in which
\* a call raised ends with exit status 1.
C6_ExitStatus ==
  \A p \in Runs :
    /\ pc[p] = "done" => exitStatus[p] = 0
    /\ pc[p] = "faulted" => exitStatus[p] = 1
    /\ ~Ended(p) => exitStatus[p] = -1

C6_Witness ==
  \E p \in Runs :
    /\ pc[p] = "faulted" /\ exitStatus[p] = 1
    /\ LastCall(p).op = "delete"

FaultAt(op, out) ==
  \/ out = "neterr"
  \/ out = "badbody" /\ op \in {"list", "update", "delete"}
  \/ out = "rejected" /\ op = "list"

C8_AsStated ==
  \A p \in Runs :
    Ended(p) /\ Len(stored_posts[p]) > 1 =>
      WriteCalls(p) = ExpectedUpdate(p) \o ExpectedDeletes(p)

\* C8: the writes of a run that found more than one matching record are, in
\* this order, the update of the primary if its content differed and one
\* delete per other record in the provider's order; a run that ends normally
\* issued them all, a run that faulted issued a prefix of them.
C8_DeleteOrder ==
  \A p \in Runs :
    Len(stored_posts[p]) > 1 =>
      /\ IsPrefix(WriteCalls(p), ExpectedUpdate(p) \o ExpectedDeletes(p))
      /\ pc[p] = "done" =>
           WriteCalls(p) = ExpectedUpdate(p) \o ExpectedDeletes(p)

\* no update, and the deletions still happened
C8_Witness ==
  \E p \in Runs :
    /\ pc[p] = "done" /\ Len(stored_posts[p]) > 2
    /\ ExpectedUpdate(p) = <<>>
    /\ WriteCalls(p) = ExpectedDeletes(p)

\* C9: every write call is a create of ("AAAA", HOSTNAME) or targets the
\* identifier of a matching record the run listed, and no step changes the
\* records of other names or types, also in runs that fault.
C9_Frame ==
  /\ [](\A p \in Runs : \A j \in 1..Len(WriteCalls(p)) :
          LET c == WriteCalls(p)[j] IN
          \/ c.op = "create" /\ c.type = "AAAA" /\ c.name = HOSTNAME
          \/ /\ c.op \in {"update", "delete"}
             /\ \E k \in 1..Len(stored_posts[p]) :
                  stored_posts[p][k].id = c.id /\ Ours(stored_posts[p][k]))
  /\ [][SelectSeq(zone', NotOurs) = SelectSeq(zone, NotOurs)]_vars

C9_Witness ==
  \E p \in Runs :
    /\ pc[p] = "faulted"
    /\ Len(WriteCalls(p)) > 0
    /\ Len(SelectSeq(zone, NotOurs)) > 0

\* C10: whatever runs overlap, a step never removes the matching record that
\* is first in the provider's order: once a matching record exists, one
\* always exists, and the first one stays the same record.
C10_FirstStays ==
  [][Len(SelectSeq(zone, Ours)) > 0 =>
       /\ Len(SelectSeq(zone', Ours)) > 0
       /\ SelectSeq(zone', Ours)[1].id = SelectSeq(zone, Ours)[1].id]_vars

\* two overlapping runs both went through their deletions
C10_Witness ==
  \E p \in Runs : \E q \in Runs \ {p} :
    /\ overlapped[p] /\ overlapped[q]
    /\ pc[p] = "done" /\ pc[q] = "done"
    /\ DeleteCalls(p) # <<>> /\ DeleteCalls(q) # <<>>
    /\ Len(MatchingNow) > 0

TypeOK ==
  /\ \A p \in Runs : pc[p] \in {"idle", "list", "create", "update", "delete", "done", "faulted"}
  /\ \A p \in Runs : exitStatus[p] \in {-1, 0, 1}
====
